---- MODULE Spec2Model ----
(***************************************************************************)
(* Learnflow Base: the record model (domain.py), the service over the      *)
(* in-memory store (service.py) and the presentation layer's handlers      *)
(* that append, clear, save, load and export (ui.py).                      *)
(*                                                                         *)
(* A Python str is a sequence of one-character tokens, so that strip(),    *)
(* the f-string renderings and the JSON field defaults are computed and    *)
(* not assumed.  Python's None is the token sequence NoneText.             *)
(***************************************************************************)
EXTENDS Integers, Sequences, FiniteSets, TLC

VARIABLES
    entries,    \* LearnflowService._state.entries: EntryType -> list of records
    clock,      \* the instant datetime.now() returns next; it is one later after each append
    log,        \* the lines of learnflow.log
    writable,   \* whether learnflow.log can be opened for appending in this run
    calls,      \* history: the raw texts set_entry received, per entry type
    mixed,      \* history: the entry types whose list also got records another way
    last,       \* the handler that last got past its early returns, and whether it
                \* returned normally
    seen        \* history: whether the last handler called analyze_mood, and the
                \* list of its entry type as it was at that call

vars == <<entries, clock, log, writable, calls, mixed, last, seen>>

----------------------------------------------------------------------------
(* Bounds of the model. *)

MaxAppends == 2     \* records the handlers append in one run, one per instant
MaxRecords == 2     \* records in the store beyond which the handlers append no more

----------------------------------------------------------------------------
(* domain.py *)

EntryType == <<"Goal", "Skill", "Session", "Notes">>

EntryTypes == {EntryType[i] : i \in 1..Len(EntryType)}

NoneText == <<"None">>

EmptyStr == <<>>

Whitespace == {" "}

\* datetime.now().isoformat(timespec="seconds") at instant t
isoformat(t) == <<"T", t>>

\* LearningLog(entry_type, text, timestamp=now, mood="")
LearningLog(entry_type, text, timestamp, mood) ==
    [kind |-> "LearningLog", entry_type |-> entry_type, text |-> text,
     timestamp |-> timestamp, mood |-> mood]

DefaultStatus == "in-progress"

\* GoalLog(entry_type, text, timestamp=now, mood="", status="in-progress")
GoalLog(entry_type, text, timestamp, mood, status) ==
    [kind |-> "GoalLog", entry_type |-> entry_type, text |-> text,
     timestamp |-> timestamp, mood |-> mood, status |-> status]

\* ReflectionLog(entry_type, text, timestamp=now, mood="")
ReflectionLog(entry_type, text, timestamp, mood) ==
    [kind |-> "ReflectionLog", entry_type |-> entry_type, text |-> text,
     timestamp |-> timestamp, mood |-> mood]

\* isinstance(rec, GoalLog), isinstance(rec, ReflectionLog)
IsGoalLog(rec) == rec.kind = "GoalLog"

IsReflectionLog(rec) == rec.kind = "ReflectionLog"

\* LearningLog.summary(): "{entry_type}: {text}" and " [Mood: {mood}]" if mood
RecordSummary(rec) ==
    LET mood_str == IF rec.mood # "" THEN <<" [Mood: ", rec.mood, "]">> ELSE <<>>
    IN  <<rec.entry_type, ": ">> \o rec.text \o mood_str

\* LearnflowState(): {e: [] for e in EntryType}
LearnflowState == [e \in EntryTypes |-> <<>>]

----------------------------------------------------------------------------
(* str.strip() *)

RECURSIVE lstrip(_)
lstrip(s) ==
    IF s = <<>> THEN s
    ELSE IF Head(s) \in Whitespace THEN lstrip(Tail(s)) ELSE s

RECURSIVE rstrip(_)
rstrip(s) ==
    IF s = <<>> THEN s
    ELSE IF s[Len(s)] \in Whitespace THEN rstrip(SubSeq(s, 1, Len(s) - 1)) ELSE s

strip(s) == rstrip(lstrip(s))

\* (text or "").strip()
clean_text(text) == strip(IF text = NoneText \/ text = <<>> THEN EmptyStr ELSE text)

----------------------------------------------------------------------------
(* service.py: LearnflowService *)

\* write_log: the line appended to learnflow.log for a record
log_line(record) ==
    LET line == <<"[", record.timestamp, "] ", record.entry_type, ": ">> \o record.text
    IN  IF IsGoalLog(record) THEN line \o <<" (Status: ", record.status, ")">>
        ELSE IF IsReflectionLog(record)
             THEN (IF record.mood # "" THEN line \o <<" (Mood: ", record.mood, ")">> ELSE line)
        ELSE IF record.mood # "" THEN line \o <<" (Mood: ", record.mood, ")">>
        ELSE line

\* write_log: open(log_file, "a") and write; io is whether the file could be opened
write_log_truncate(lines, record, io) ==
    IF io THEN <<log_line(record)>> ELSE lines

write_log(lines, record, io) ==
    IF io THEN Append(lines, log_line(record)) ELSE lines

\* set_entry: the store after self._state.entries[entry_type].append(record)
set_entry_overwrite(store, entry_type, text, timestamp) ==
    [store EXCEPT ![entry_type] = <<LearningLog(entry_type, clean_text(text), timestamp, "")>>]

set_entry(store, entry_type, text, timestamp) ==
    [store EXCEPT ![entry_type] =
        Append(@, LearningLog(entry_type, clean_text(text), timestamp, ""))]

\* set_entry, the whole call: the append, then write_log; an exception of
\* write_log leaves set_entry through no handler, so ok is whether it was raised
set_entry_call_rollback(store, lines, entry_type, text, timestamp, io) ==
    IF io
    THEN LET after == set_entry(store, entry_type, text, timestamp)
         IN  [entries |-> after,
              log |-> write_log(lines, after[entry_type][Len(after[entry_type])], io),
              ok |-> TRUE]
    ELSE [entries |-> store, log |-> lines, ok |-> FALSE]

set_entry_call(store, lines, entry_type, text, timestamp, io) ==
    LET after == set_entry(store, entry_type, text, timestamp)
        record == after[entry_type][Len(after[entry_type])]
    IN  [entries |-> after, log |-> write_log(lines, record, io), ok |-> io]

\* clear: for k in entries: entries[k] = []
clear_first_only(store) == [store EXCEPT ![EntryType[1]] = <<>>]

clear(store) == [k \in DOMAIN store |-> <<>>]

\* get_entry: the text of the last record, "" when there is none
get_entry_in(store, entry_type) ==
    IF store[entry_type] # <<>>
    THEN store[entry_type][Len(store[entry_type])].text
    ELSE EmptyStr

get_entry(entry_type) == get_entry_in(entries, entry_type)

\* summary: the loop over self._state.entries.items(), from the i-th entry type on
RECURSIVE summary_loop(_, _, _)
summary_loop(store, i, result) ==
    IF i > Len(EntryType) THEN result
    ELSE LET e == EntryType[i]
             records == store[e]
         IN  IF records # <<>>
             THEN summary_loop(store, i + 1,
                      [k \in DOMAIN result \cup {e} |->
                          IF k = e THEN RecordSummary(records[Len(records)])
                          ELSE result[k]])
             ELSE summary_loop(store, i + 1, result)

summary_of_first(store) ==
    [e \in {k \in EntryTypes : store[k] # <<>>} |-> RecordSummary(store[e][1])]

summary_in(store) == summary_loop(store, 1, <<>>)

summary == summary_in(entries)

\* snapshot: deepcopy(self._state): the copy and the objects it shares with the
\* live state ("dict": the entries mapping, "lists": the per-type lists,
\* "records": the record objects)
snapshot_shallow(store) == [entries |-> store, shares |-> {"dict", "lists", "records"}]

snapshot(store) == [entries |-> store, shares |-> {}]

----------------------------------------------------------------------------
(* ui.py: App *)

PolarityThreshold == 3      \* 0.3, in tenths

\* analyze_mood: the label for the polarity TextBlob reports (in tenths)
analyze_mood(polarity) ==
    IF polarity > PolarityThreshold THEN "motivated"
    ELSE IF polarity < -PolarityThreshold THEN "stuck"
    ELSE "neutral"

\* on_add_or_edit_entry: the record the handler builds for the entry type;
\* set_entry builds its own
new_entry(entry_type, text, timestamp, polarity) ==
    IF entry_type = "Goal"
    THEN GoalLog(entry_type, text, timestamp, "", DefaultStatus)
    ELSE IF entry_type = "Notes"
    THEN ReflectionLog(entry_type, text, timestamp, analyze_mood(polarity))
    ELSE LearningLog(entry_type, clean_text(text), timestamp, "")

\* on_add_or_edit_entry: the store after the handler's append
on_add_or_edit_entry_prepend(store, entry_type, text, timestamp, polarity) ==
    IF entry_type \in {"Goal", "Notes"}
    THEN [store EXCEPT ![entry_type] =
              <<new_entry(entry_type, text, timestamp, polarity)>> \o @]
    ELSE set_entry(store, entry_type, text, timestamp)

on_add_or_edit_entry(store, entry_type, text, timestamp, polarity) ==
    IF entry_type \in {"Goal", "Notes"}
    THEN [store EXCEPT ![entry_type] =
              Append(@, new_entry(entry_type, text, timestamp, polarity))]
    ELSE set_entry(store, entry_type, text, timestamp)

\* on_add_or_edit_entry: what analyze_mood finds when the handler calls it.  The
\* handler calls it for Notes alone, between building the ReflectionLog and
\* appending it: the Notes list is still as the handler found it
mood_call_after_append(store, entry_type, text, timestamp) ==
    IF entry_type = "Notes"
    THEN [called |-> TRUE,
          list |-> Append(store[entry_type], ReflectionLog(entry_type, text, timestamp, ""))]
    ELSE [called |-> FALSE]

mood_call(store, entry_type, text, timestamp) ==
    IF entry_type = "Notes"
    THEN [called |-> TRUE, list |-> store[entry_type]]
    ELSE [called |-> FALSE]

\* on_add_or_edit_entry: the statements after the popup: for Goal and Notes the
\* append to service._state.entries and then write_log, else set_entry
on_add_or_edit_entry_call_via_service(store, lines, entry_type, text, timestamp, polarity, io) ==
    LET r == set_entry_call(store, lines, entry_type, text, timestamp, io)
    IN  [entries |-> r.entries, log |-> r.log, ok |-> r.ok,
         seen |-> mood_call(store, entry_type, text, timestamp)]

on_add_or_edit_entry_call(store, lines, entry_type, text, timestamp, polarity, io) ==
    IF entry_type \in {"Goal", "Notes"}
    THEN LET after == on_add_or_edit_entry(store, entry_type, text, timestamp, polarity)
             record == after[entry_type][Len(after[entry_type])]
         IN  [entries |-> after, log |-> write_log(lines, record, io), ok |-> io,
              seen |-> mood_call(store, entry_type, text, timestamp)]
    ELSE LET r == set_entry_call(store, lines, entry_type, text, timestamp, io)
         IN  [entries |-> r.entries, log |-> r.log, ok |-> r.ok,
              seen |-> mood_call(store, entry_type, text, timestamp)]

\* save_entries: record_dict for one record under the key et
record_dict_no_timestamp(et, rec) ==
    IF IsGoalLog(rec)
    THEN [entry_type |-> et, text |-> rec.text, mood |-> rec.mood, status |-> rec.status]
    ELSE [entry_type |-> et, text |-> rec.text, mood |-> rec.mood]

record_dict(et, rec) ==
    LET base == [entry_type |-> et, text |-> rec.text,
                 timestamp |-> rec.timestamp, mood |-> rec.mood]
    IN  IF IsGoalLog(rec)
        THEN [k \in DOMAIN base \cup {"status"} |->
                 IF k = "status" THEN rec.status ELSE base[k]]
        ELSE IF IsReflectionLog(rec)
        THEN [base EXCEPT !.mood = rec.mood]
        ELSE base

\* save_entries: the JSON value written under one key
json_records(et, logs) ==
    [kind |-> "array",
     elems |-> [i \in 1..Len(logs) |->
                   [kind |-> "object", fields |-> record_dict(et, logs[i])]]]

\* save_entries: the loop over history.items(), from the i-th entry type on
RECURSIVE export_loop_keep_empty(_, _, _)
export_loop_keep_empty(history, i, export_dict) ==
    IF i > Len(EntryType) THEN export_dict
    ELSE LET et == EntryType[i]
         IN  export_loop_keep_empty(history, i + 1,
                 Append(export_dict, [key |-> et, value |-> json_records(et, history[et])]))

RECURSIVE export_loop(_, _, _)
export_loop(history, i, export_dict) ==
    IF i > Len(EntryType) THEN export_dict
    ELSE LET et == EntryType[i]
         IN  IF history[et] # <<>>
             THEN export_loop(history, i + 1,
                      Append(export_dict, [key |-> et, value |-> json_records(et, history[et])]))
             ELSE export_loop(history, i + 1, export_dict)

\* save_entries: the document json.dump writes
save_entries(store) ==
    [kind |-> "object", items |-> export_loop(snapshot(store).entries, 1, <<>>)]

\* rec.get(name, default)
get(fields, name, default) ==
    IF name \in DOMAIN fields THEN fields[name] ELSE default

\* load_entries: the record built from one JSON object under the key etype
load_record_notes_first(etype, rec) ==
    LET text == get(rec, "text", EmptyStr)
        timestamp == get(rec, "timestamp", EmptyStr)
        mood == get(rec, "mood", "")
    IN  IF etype = "Notes" THEN ReflectionLog(etype, text, timestamp, mood)
        ELSE IF "status" \in DOMAIN rec
        THEN GoalLog(etype, text, timestamp, mood, rec["status"])
        ELSE LearningLog(etype, text, timestamp, mood)

load_record_own_type(etype, rec) ==
    LET own == get(rec, "entry_type", etype)
        text == get(rec, "text", EmptyStr)
        timestamp == get(rec, "timestamp", EmptyStr)
        mood == get(rec, "mood", "")
    IN  IF "status" \in DOMAIN rec
        THEN GoalLog(own, text, timestamp, mood, rec["status"])
        ELSE IF etype = "Notes" THEN ReflectionLog(own, text, timestamp, mood)
        ELSE LearningLog(own, text, timestamp, mood)

load_record(etype, rec) ==
    LET text == get(rec, "text", EmptyStr)
        timestamp == get(rec, "timestamp", EmptyStr)
        mood == get(rec, "mood", "")
    IN  IF "status" \in DOMAIN rec
        THEN GoalLog(etype, text, timestamp, mood, rec["status"])
        ELSE IF etype = "Notes" THEN ReflectionLog(etype, text, timestamp, mood)
        ELSE LearningLog(etype, text, timestamp, mood)

\* the JSON values Python can iterate over, and those that have .get
Iterable == {"array", "object", "string"}

\* load_entries: for rec in records, from the i-th on; ok is FALSE when
\* rec.get raised, and the store is as the loop left it
RECURSIVE load_records(_, _, _, _)
load_records(store, etype, records, i) ==
    IF i > Len(records) THEN [store |-> store, ok |-> TRUE]
    ELSE IF records[i].kind # "object" THEN [store |-> store, ok |-> FALSE]
    ELSE load_records(
             [store EXCEPT ![etype] = Append(@, load_record(etype, records[i].fields))],
             etype, records, i + 1)

\* load_entries: for etype_str, records in data.items(), from the i-th on;
\* EntryType(etype_str) raises for a string that is no entry type
RECURSIVE load_items(_, _, _)
load_items(store, items, i) ==
    IF i > Len(items) THEN [store |-> store, ok |-> TRUE]
    ELSE IF items[i].key \notin EntryTypes THEN [store |-> store, ok |-> FALSE]
    ELSE IF items[i].value.kind \notin Iterable THEN [store |-> store, ok |-> FALSE]
    ELSE LET r == load_records(store, items[i].key, items[i].value.elems, 1)
         IN  IF r.ok THEN load_items(r.store, items, i + 1) ELSE r

\* load_entries: the try block; data is the file's content
load_entries_skip_unknown(store, data) ==
    IF data.kind = "invalid" THEN [store |-> store, ok |-> FALSE]
    ELSE IF data.kind # "object" THEN [store |-> LearnflowState, ok |-> FALSE]
    ELSE load_items(LearnflowState,
                    SelectSeq(data.items, LAMBDA it : it.key \in EntryTypes), 1)

load_entries_keep_old(store, data) ==
    IF data.kind = "invalid" THEN [store |-> store, ok |-> FALSE]
    ELSE IF data.kind # "object" THEN [store |-> LearnflowState, ok |-> FALSE]
    ELSE load_items(store, data.items, 1)

load_entries(store, data) ==
    IF data.kind = "invalid" THEN [store |-> store, ok |-> FALSE]
    ELSE IF data.kind # "object" THEN [store |-> LearnflowState, ok |-> FALSE]
    ELSE load_items(LearnflowState, data.items, 1)

\* export_csv: the row written for one record under etype
csv_row(etype, rec) ==
    LET mood == rec.mood
        status == IF IsGoalLog(rec) THEN rec.status ELSE ""
    IN  <<etype, rec.timestamp, rec.text, mood, status>>

\* export_csv: for rec in records
csv_records_latest(etype, records) ==
    IF records = <<>> THEN <<>> ELSE <<csv_row(etype, records[Len(records)])>>

csv_records(etype, records) == [i \in 1..Len(records) |-> csv_row(etype, records[i])]

\* export_csv: for etype, records in history.items(), from the i-th entry type on
RECURSIVE csv_loop(_, _, _)
csv_loop(history, i, rows) ==
    IF i > Len(EntryType) THEN rows
    ELSE csv_loop(history, i + 1, rows \o csv_records(EntryType[i], history[EntryType[i]]))

CsvHeader == <<"EntryType", "Timestamp", "Text", "Mood", "Status">>

\* export_csv: the rows written to the file, the header first
export_csv(store) == csv_loop(snapshot(store).entries, 1, <<CsvHeader>>)

----------------------------------------------------------------------------
(* A caller that holds the store snapshot() returned and mutates it. *)

Mutations == [kind : {"append", "pop", "replace", "setattr"}, entry_type : EntryTypes]

\* the store after history[c].append(..), history[c].pop(), history[c] = []
\* or history[c][-1].text = ..
mutate(store, m) ==
    LET c == m.entry_type
        n == Len(store[c])
    IN  IF m.kind = "append"
        THEN [store EXCEPT ![c] = Append(@, LearningLog(c, <<"x">>, EmptyStr, ""))]
        ELSE IF m.kind = "replace" THEN [store EXCEPT ![c] = <<>>]
        ELSE IF n = 0 THEN store
        ELSE IF m.kind = "pop" THEN [store EXCEPT ![c] = SubSeq(@, 1, n - 1)]
        ELSE [store EXCEPT ![c][n].text = <<"x">>]

\* the object of the snapshot a mutation writes to
target(m) ==
    IF m.kind = "replace" THEN "dict"
    ELSE IF m.kind = "setattr" THEN "records"
    ELSE "lists"

\* the live store after the holder of snap has applied m to it
live_after(store, snap, m) ==
    IF target(m) \in snap.shares THEN mutate(store, m) ELSE store

----------------------------------------------------------------------------
(* The inputs of the handlers. *)

\* what the caller passes as text: None, "", " a b "
Texts == {NoneText, <<>>, <<" ", "a", " ", "b", " ">>}

\* what TextBlob reports as polarity, in tenths
Polarities == {-4, 3, 4}

\* TextBlob is asked for Notes alone; elsewhere the value is never read
AskedPolarities(entry_type) ==
    IF entry_type = "Notes" THEN Polarities ELSE {PolarityThreshold}

Obj(fields) == [kind |-> "object", fields |-> fields]

Arr(elems) == [kind |-> "array", elems |-> elems]

Doc(items) == [kind |-> "object", items |-> items]

\* not JSON at all: json.load raises
DocInvalid == [kind |-> "invalid"]

\* a JSON array at the top level
DocTopArray == [kind |-> "array"]

\* a key that is no entry type, after a key that is one
DocUnknownKey ==
    Doc(<<[key |-> "Goal", value |-> Arr(<<Obj([text |-> <<"a">>, status |-> "done"])>>)],
          [key |-> "Bogus", value |-> Arr(<<Obj([text |-> <<"a">>])>>)]>>)

\* a list whose second element is a string, not an object
DocMalformed ==
    Doc(<<[key |-> "Skill", value |-> Arr(<<Obj([text |-> <<"a">>]), [kind |-> "string"]>>)]>>)

\* a value that is a number, after a key with a good list
DocNotIterable ==
    Doc(<<[key |-> "Skill", value |-> Arr(<<Obj([text |-> <<"a">>])>>)],
          [key |-> "Session", value |-> [kind |-> "number"]]>>)

\* under Notes an object with a status (and another entry_type) and one with
\* a mood only; under Session an object with no field at all; an empty list
DocGood ==
    Doc(<<[key |-> "Notes", value |->
             Arr(<<Obj([entry_type |-> "Goal", text |-> <<"a">>, timestamp |-> isoformat(0),
                        mood |-> "stuck", status |-> ""]),
                   Obj([mood |-> "neutral"])>>)],
          [key |-> "Session", value |-> Arr(<<Obj(<<>>)>>)],
          [key |-> "Skill", value |-> Arr(<<>>)]>>)

CraftedDocs ==
    {DocInvalid, DocTopArray, DocUnknownKey, DocMalformed, DocNotIterable, DocGood}

\* the files the user can pick: the ones above and the one save_entries writes
\* for the store as it is
Files(store) == CraftedDocs \cup {save_entries(store)}

----------------------------------------------------------------------------
(* The state machine. *)

\* the number of records in the store
size(store) == Len(store["Goal"]) + Len(store["Skill"]) + Len(store["Session"]) + Len(store["Notes"])

\* the bounds leave room for one more record
room == clock < MaxAppends /\ size(entries) < MaxRecords

Init ==
    /\ entries = LearnflowState
    /\ clock = 0
    /\ log = <<>>
    /\ writable \in {TRUE, FALSE}
    /\ calls = [e \in EntryTypes |-> <<>>]
    /\ mixed = {}
    /\ last = [op |-> "init", ok |-> TRUE]
    /\ seen = [called |-> FALSE]

\* LearnflowService.set_entry(entry_type, text)
do_set_entry(entry_type, text) ==
    /\ room
    /\ LET r == set_entry_call(entries, log, entry_type, text, isoformat(clock), writable)
       IN  /\ entries' = r.entries
           /\ log' = r.log
           /\ last' = [op |-> "set_entry", ok |-> r.ok]
    /\ clock' = clock + 1
    /\ calls' = [calls EXCEPT ![entry_type] = Append(@, text)]
    /\ seen' = [called |-> FALSE]
    /\ UNCHANGED <<writable, mixed>>

\* App.on_add_or_edit_entry(entry_type) when the popup returned text; polarity
\* is what TextBlob reports for it
do_on_add_or_edit_entry(entry_type, text, polarity) ==
    /\ room
    /\ text # NoneText /\ text # <<>>
    /\ LET r == on_add_or_edit_entry_call(entries, log, entry_type, text,
                                          isoformat(clock), polarity, writable)
       IN  /\ entries' = r.entries
           /\ log' = r.log
           /\ last' = [op |-> "on_add_or_edit_entry", ok |-> r.ok]
           /\ seen' = r.seen
    /\ clock' = clock + 1
    /\ IF entry_type \in {"Goal", "Notes"}
       THEN /\ mixed' = mixed \cup {entry_type}
            /\ calls' = calls
       ELSE /\ mixed' = mixed
            /\ calls' = [calls EXCEPT ![entry_type] = Append(@, text)]
    /\ UNCHANGED writable

\* App.on_add_or_edit_entry(entry_type) when the popup was cancelled or left empty
do_cancel_entry(text) ==
    /\ text = NoneText \/ text = <<>>
    /\ UNCHANGED vars

\* LearnflowService.clear(), App.clear_entries()
do_clear ==
    /\ entries' = clear(entries)
    /\ calls' = [e \in EntryTypes |-> <<>>]
    /\ mixed' = {}
    /\ last' = [op |-> "clear", ok |-> TRUE]
    /\ seen' = [called |-> FALSE]
    /\ UNCHANGED <<clock, log, writable>>

\* App.save_entries(): the document goes to the file the user names
do_save_entries ==
    /\ save_entries(entries).kind = "object"
    /\ last' = [op |-> "save_entries", ok |-> TRUE]
    /\ seen' = [called |-> FALSE]
    /\ UNCHANGED <<entries, clock, log, writable, calls, mixed>>

\* LearnflowService.get_entry(entry_type): the caller gets the text
do_get_entry(entry_type) ==
    /\ Len(get_entry(entry_type)) >= 0
    /\ last' = [op |-> "get_entry", ok |-> TRUE]
    /\ seen' = [called |-> FALSE]
    /\ UNCHANGED <<entries, clock, log, writable, calls, mixed>>

\* LearnflowService.summary(), App.render_summary(): the caller gets the mapping
do_summary ==
    /\ DOMAIN summary \subseteq EntryTypes
    /\ last' = [op |-> "summary", ok |-> TRUE]
    /\ seen' = [called |-> FALSE]
    /\ UNCHANGED <<entries, clock, log, writable, calls, mixed>>

\* App.export_csv(): the rows go to the file the user names
do_export_csv ==
    /\ Head(export_csv(entries)) = CsvHeader
    /\ last' = [op |-> "export_csv", ok |-> TRUE]
    /\ seen' = [called |-> FALSE]
    /\ UNCHANGED <<entries, clock, log, writable, calls, mixed>>

\* App.load_entries() on the file the user picks
do_load_entries(data) ==
    /\ LET r == load_entries(entries, data)
       IN  /\ entries' = r.store
           /\ last' = [op |-> "load_entries", ok |-> r.ok]
           /\ IF data.kind = "invalid"
              THEN UNCHANGED <<calls, mixed>>
              ELSE /\ calls' = [e \in EntryTypes |-> <<>>]
                   /\ mixed' = {e \in EntryTypes : r.store[e] # <<>>}
    /\ seen' = [called |-> FALSE]
    /\ UNCHANGED <<clock, log, writable>>

\* a caller takes snapshot() and applies the mutation m to what it got
do_snapshot(m) ==
    /\ LET snap == snapshot(entries)
       IN  /\ mutate(snap.entries, m) # snap.entries
           /\ entries' = live_after(entries, snap, m)
    /\ last' = [op |-> "snapshot", ok |-> TRUE]
    /\ seen' = [called |-> FALSE]
    /\ UNCHANGED <<clock, log, writable, calls, mixed>>

\* learnflow.log becomes unwritable, or writable again, between two handlers
do_log_file_changes ==
    /\ writable' = ~writable
    /\ UNCHANGED <<entries, clock, log, calls, mixed, last, seen>>

Next ==
    \/ \E e \in EntryTypes, text \in Texts : do_set_entry(e, text)
    \/ \E e \in EntryTypes, text \in Texts :
           \E p \in AskedPolarities(e) :
               do_on_add_or_edit_entry(e, text, p)
    \/ \E text \in Texts : do_cancel_entry(text)
    \/ do_clear
    \/ do_save_entries
    \/ do_export_csv
    \/ \E e \in EntryTypes : do_get_entry(e)
    \/ do_summary
    \/ \E data \in Files(entries) : do_load_entries(data)
    \/ \E m \in Mutations : do_snapshot(m)
    \/ do_log_file_changes

Spec == Init /\ [][Next]_vars

----------------------------------------------------------------------------
(* The properties. *)

\* t is raw without its leading and trailing whitespace (None counts as "")
IsSanitizedOf(t, raw) ==
    LET r == IF raw = NoneText THEN <<>> ELSE raw
    IN  /\ t # <<>> => t[1] \notin Whitespace /\ t[Len(t)] \notin Whitespace
        /\ \E i \in 0..Len(r) :
               /\ i + Len(t) <= Len(r)
               /\ SubSeq(r, i + 1, i + Len(t)) = t
               /\ \A k \in 1..Len(r) : (k <= i \/ k > i + Len(t)) => r[k] \in Whitespace

\* C1: for an entry type whose list got its records from set_entry alone, the
\* list has one record per call, the texts are the sanitized texts of the
\* calls in call order, and get_entry returns the sanitized text of the last call
C1_SetEntryAppends ==
    \A e \in EntryTypes \ mixed :
        /\ Len(entries[e]) = Len(calls[e])
        /\ \A i \in 1..Len(calls[e]) : IsSanitizedOf(entries[e][i].text, calls[e][i])
        /\ calls[e] # <<>> => IsSanitizedOf(get_entry(e), calls[e][Len(calls[e])])
        /\ calls[e] # <<>> => get_entry(e) = entries[e][Len(calls[e])].text

C1_Witness ==
    \E e \in EntryTypes \ mixed :
        /\ last = [op |-> "set_entry", ok |-> TRUE]
        /\ Len(calls[e]) = 2
        /\ calls[e][1] \notin {NoneText, <<>>}
        /\ entries[e][1].text # calls[e][1]
        /\ entries[e][2].text # entries[e][1].text
        /\ get_entry(e) = entries[e][2].text

\* C2: when clear() has completed, get_entry returns "" for every entry type
\* and summary() is the empty mapping
C2_ClearEmptiesAll ==
    last.op = "clear" =>
        /\ \A e \in EntryTypes : get_entry(e) = EmptyStr
        /\ DOMAIN summary = {}

C2_Witness ==
    /\ last.op = "clear"
    /\ Len(log) = 2

\* C3: summary() has an entry for an entry type exactly when its list holds a
\* record, so at most 4, and the entry is the one-line rendering of the last record
C3_SummaryOfLatest ==
    /\ DOMAIN summary = {e \in EntryTypes : entries[e] # <<>>}
    /\ Cardinality(DOMAIN summary) <= 4
    /\ \A e \in DOMAIN summary :
           LET rec == entries[e][Len(entries[e])]
           IN  summary[e] = <<e, ": ">> \o rec.text \o
                   (IF rec.mood = "" THEN <<>> ELSE <<" [Mood: ", rec.mood, "]">>)

C3_Witness ==
    /\ Len(entries["Notes"]) = 2
    /\ entries["Notes"][1].mood # entries["Notes"][2].mood
    /\ entries["Notes"][2].mood # ""
    /\ DOMAIN summary = {"Notes"}

\* C4: a mutation of the store snapshot() returned leaves the live store, and
\* what get_entry and summary return, unchanged
C4_SnapshotIndependent ==
    [][last'.op = "snapshot" =>
          /\ entries' = entries
          /\ summary' = summary
          /\ \A e \in EntryTypes : get_entry(e)' = get_entry(e)]_vars

C4_Witness ==
    /\ last.op = "snapshot"
    /\ entries["Goal"] # <<>> /\ entries["Notes"] # <<>>

\* C5: a load that fails leaves the store as it was before the load
C5_FailedLoadKeepsStore ==
    [][(last'.op = "load_entries" /\ ~last'.ok) => entries' = entries]_vars

\* the store load_entries leaves when it reads what save_entries wrote for
\* the live store, loading into the store into
RoundTrip(into) == load_entries(into, save_entries(entries))

\* the stores the round trip is loaded into: an empty one, the live one, a full one
IntoStores == {LearnflowState, entries, load_entries(LearnflowState, DocGood).store}

\* C6: save then load gives, for every entry type that had a record, a list of
\* the same length and order with the same text, timestamp and mood, and for
\* a GoalLog the same status
C6_RoundTrip ==
    \A into \in IntoStores :
        /\ RoundTrip(into).ok
        /\ \A e \in EntryTypes :
               entries[e] # <<>> =>
                   /\ Len(RoundTrip(into).store[e]) = Len(entries[e])
                   /\ \A i \in 1..Len(entries[e]) :
                          LET old == entries[e][i]
                              new == RoundTrip(into).store[e][i]
                          IN  /\ new.text = old.text
                              /\ new.timestamp = old.timestamp
                              /\ new.mood = old.mood
                              /\ IsGoalLog(old) => IsGoalLog(new) /\ new.status = old.status

\* a load of what was saved has run, on a store with a GoalLog and a
\* ReflectionLog that differ in text or time
C6_Witness ==
    /\ last = [op |-> "load_entries", ok |-> TRUE]
    /\ clock = 2
    /\ Len(entries["Goal"]) = 1 /\ IsGoalLog(entries["Goal"][1])
    /\ entries["Goal"][1].timestamp = isoformat(0)
    /\ Len(entries["Notes"]) = 1 /\ entries["Notes"][1].mood = "motivated"
    /\ entries["Notes"][1].timestamp = isoformat(1)
    /\ RoundTrip(LearnflowState).store = entries

\* C7: save then load gives every record back with the kind it had
C7_RoundTripKeepsKind ==
    \A e \in EntryTypes :
        \A i \in 1..Len(entries[e]) :
            /\ i <= Len(RoundTrip(entries).store[e])
            /\ RoundTrip(entries).store[e][i].kind = entries[e][i].kind

\* the keys of a document, and the objects listed under the key e
Keys(data) == {data.items[i].key : i \in 1..Len(data.items)}

Under(data, e) ==
    IF e \in Keys(data)
    THEN (CHOOSE it \in {data.items[i] : i \in 1..Len(data.items)} : it.key = e).value.elems
    ELSE <<>>

\* C8: a loaded object with a status becomes a GoalLog with that status,
\* whatever its key; without one it becomes a ReflectionLog under Notes and a
\* LearningLog elsewhere
C8_Discriminator ==
    [][(last'.op = "load_entries" /\ last'.ok) =>
       \A data \in Files(entries) :
           do_load_entries(data) =>
               \A e \in Keys(data) :
                   \A i \in 1..Len(Under(data, e)) :
                       LET rec == Under(data, e)[i].fields
                           entry == entries'[e][i]
                       IN  IF "status" \in DOMAIN rec
                           THEN entry.kind = "GoalLog" /\ entry.status = rec["status"]
                           ELSE IF e = "Notes" THEN entry.kind = "ReflectionLog"
                           ELSE entry.kind = "LearningLog"]_vars

\* DocGood is loaded: under Notes a GoalLog with the status "" and a ReflectionLog
C8_Witness ==
    /\ last = [op |-> "load_entries", ok |-> TRUE]
    /\ Len(entries["Notes"]) = 2
    /\ IsGoalLog(entries["Notes"][1]) /\ entries["Notes"][1].status = ""
    /\ IsReflectionLog(entries["Notes"][2])
    /\ Len(entries["Session"]) = 1 /\ entries["Session"][1].kind = "LearningLog"

\* C9: a load of a document with a key that is no entry type ends as a failure
C9_UnknownKeyRejected ==
    [][\A data \in {d \in Files(entries) : d.kind = "object" /\ ~(Keys(d) \subseteq EntryTypes)} :
           do_load_entries(data) => (last'.op = "load_entries" /\ ~last'.ok)]_vars

\* DocUnknownKey was loaded: the load failed after the Goal key was read
C9_Witness ==
    /\ last = [op |-> "load_entries", ok |-> FALSE]
    /\ Len(entries["Goal"]) = 1 /\ entries["Goal"][1].status = "done"

\* C10: after a successful load every list holds the records of the input under
\* its key, in input order, and nothing else
C10_LoadReplaces ==
    [][(last'.op = "load_entries" /\ last'.ok) =>
       \A data \in Files(entries) :
           do_load_entries(data) =>
               \A e \in EntryTypes :
                   /\ Len(entries'[e]) = Len(Under(data, e))
                   /\ \A i \in 1..Len(Under(data, e)) :
                          LET rec == Under(data, e)[i].fields
                              entry == entries'[e][i]
                          IN  /\ entry.entry_type = e
                              /\ entry.text = get(rec, "text", EmptyStr)
                              /\ entry.timestamp = get(rec, "timestamp", EmptyStr)
                              /\ entry.mood = get(rec, "mood", "")]_vars

\* DocGood was loaded after two records had been appended, and they are gone
C10_Witness ==
    /\ last = [op |-> "load_entries", ok |-> TRUE]
    /\ Len(log) = 2
    /\ entries = load_entries(LearnflowState, DocGood).store
    /\ entries["Goal"] = <<>> /\ entries["Skill"] = <<>>

\* the entry type whose list a handler made longer in this step, and the record
\* it appended
Appended == CHOOSE e \in EntryTypes : Len(entries'[e]) = Len(entries[e]) + 1

NewRecord == entries'[Appended][Len(entries'[Appended])]

\* the handler of this step appended a record
Appends == clock' = clock + 1

\* the line of the append log for a record under the entry type e
LineOf(e, rec) ==
    <<"[", rec.timestamp, "] ", e, ": ">> \o rec.text \o
        (IF IsGoalLog(rec) THEN <<" (Status: ", rec.status, ")">>
         ELSE IF rec.mood # "" THEN <<" (Mood: ", rec.mood, ")">>
         ELSE <<>>)

\* C11 as stated: the log holds one line per record the handlers appended, in
\* the order of the appends
C11_OneLinePerRecord ==
    /\ Len(log) = clock
    /\ \A i \in 1..Len(log) : log[i][2] = isoformat(i - 1)

\* C11 as amended: a handler that appends a record adds the record's line at
\* the end of the log when the write succeeds and leaves the log as it was when
\* the write fails; every other operation leaves the log as it was
C11_LogAppendOnly ==
    [][IF Appends
       THEN log' = IF writable THEN Append(log, LineOf(Appended, NewRecord)) ELSE log
       ELSE log' = log]_vars

\* of two appends one write failed and one succeeded, and a load came after
C11_Witness ==
    /\ clock = 2
    /\ Len(log) = 1
    /\ log[1][2] = isoformat(1)
    /\ last.op = "load_entries"

\* C12: when the log cannot be written, the handler that appends ends with the
\* failure, and still the list of one entry type is one record longer, the
\* record of this instant is its last, and get_entry returns that record's
\* text (for set_entry: the sanitized text of the call)
C12_FailedWriteKeepsRecord ==
    [][(Appends /\ ~writable) =>
          /\ ~last'.ok
          /\ log' = log
          /\ \E e \in EntryTypes :
                 LET n == Len(entries[e])
                 IN  /\ Len(entries'[e]) = n + 1
                     /\ entries'[e][n + 1].timestamp = isoformat(clock)
                     /\ get_entry(e)' = entries'[e][n + 1].text
                     /\ last'.op = "set_entry" =>
                            IsSanitizedOf(get_entry(e)', calls'[e][Len(calls'[e])])]_vars

\* set_entry(Skill, " a b ") ended with the failure of the write, and the
\* record is in the store
C12_Witness ==
    /\ last = [op |-> "set_entry", ok |-> FALSE]
    /\ ~writable
    /\ log = <<>>
    /\ Len(entries["Skill"]) = 1
    /\ get_entry("Skill") = <<"a", " ", "b">>

\* C13: set_entry returns normally, whatever the entry type and the text, after
\* it appended one LearningLog with the mood ""
C13_SetEntryNeverRaises ==
    [][(Appends /\ last'.op = "set_entry") =>
          /\ last'.ok
          /\ \E e \in EntryTypes :
                 /\ entries'[e] = Append(entries[e], entries'[e][Len(entries[e]) + 1])
                 /\ entries'[e][Len(entries[e]) + 1].kind = "LearningLog"
                 /\ entries'[e][Len(entries[e]) + 1].mood = ""]_vars

\* the document Save writes for the live store
Saved == save_entries(entries)

\* the names of the fields of a record of the domain of f
Fields(f) == DOMAIN f

\* C14: the document Save writes is an object with one key per entry type that
\* holds a record, no key twice; under a key, one object per record in list
\* order with entry_type (the key), text, timestamp and mood, and with status
\* exactly for a GoalLog
C14_SaveFormat ==
    /\ Saved.kind = "object"
    /\ Keys(Saved) = {e \in EntryTypes : entries[e] # <<>>}
    /\ Len(Saved.items) = Cardinality(Keys(Saved))
    /\ \A k \in 1..Len(Saved.items) :
           LET e == Saved.items[k].key
               value == Saved.items[k].value
           IN  /\ value.kind = "array"
               /\ value.elems # <<>>
               /\ Len(value.elems) = Len(entries[e])
               /\ \A i \in 1..Len(value.elems) :
                      LET obj == value.elems[i]
                          rec == entries[e][i]
                      IN  /\ obj.kind = "object"
                          /\ Fields(obj.fields) =
                                 {"entry_type", "text", "timestamp", "mood"} \cup
                                 (IF IsGoalLog(rec) THEN {"status"} ELSE {})
                          /\ obj.fields.entry_type = e
                          /\ obj.fields.text = rec.text
                          /\ obj.fields.timestamp = rec.timestamp
                          /\ obj.fields.mood = rec.mood
                          /\ IsGoalLog(rec) => obj.fields.status = rec.status

\* Save has run on a store with a GoalLog and a ReflectionLog under Notes, a
\* record under Session, and two entry types that hold nothing
C14_Witness ==
    /\ last.op = "save_entries"
    /\ Keys(Saved) = {"Session", "Notes"}
    /\ Len(entries["Notes"]) = 2
    /\ IsGoalLog(entries["Notes"][1])
    /\ IsReflectionLog(entries["Notes"][2])

\* the rows Export CSV writes for the live store
Exported == export_csv(entries)

\* the number of records in the lists of the entry types declared before the j-th
RowsBefore(j) ==
    LET before[k \in 1..Len(EntryType)] ==
            IF k = 1 THEN 0 ELSE before[k - 1] + Len(entries[EntryType[k - 1]])
    IN  before[j]

\* C15: after the header, Export CSV writes one row per record of the store:
\* the rows of Goal, then Skill, then Session, then Notes, each in list order,
\* with the record's entry type, timestamp, text and mood; the Status column is
\* the status for a GoalLog and empty for every other record
C15_CsvRows ==
    /\ Exported[1] = <<"EntryType", "Timestamp", "Text", "Mood", "Status">>
    /\ Len(Exported) = 1 + Len(entries["Goal"]) + Len(entries["Skill"])
                          + Len(entries["Session"]) + Len(entries["Notes"])
    /\ \A j \in 1..Len(EntryType) :
           \A i \in 1..Len(entries[EntryType[j]]) :
               LET rec == entries[EntryType[j]][i]
                   row == Exported[1 + RowsBefore(j) + i]
               IN  /\ row[1] = EntryType[j]
                   /\ row[2] = rec.timestamp
                   /\ row[3] = rec.text
                   /\ row[4] = rec.mood
                   /\ IsGoalLog(rec) => row[5] = rec.status
                   /\ row[5] # "" => IsGoalLog(rec)

\* Export CSV has run after two appends and a load that left a record under
\* Session and two under Notes
C15_Witness ==
    /\ last.op = "export_csv"
    /\ clock = 2
    /\ entries = load_entries(LearnflowState, DocGood).store
    /\ Len(Exported) = 4
    /\ Exported[2][1] = "Session"
    /\ Exported[4][5] = ""

NotesHandled ==
    /\ Appends
    /\ last'.op = "on_add_or_edit_entry"
    /\ Len(entries'["Notes"]) = Len(entries["Notes"]) + 1

\* C17 as stated: when the Notes handler calls analyze_mood, the record is
\* already the last of the Notes list
C17_AppendThenAnnotate ==
    seen.called => Len(seen.list) = Len(entries["Notes"])

\* C17 as amended: the Notes handler calls analyze_mood on the text before the
\* append, while the Notes list is as the handler found it; it sets the mood
\* on the ReflectionLog and then appends it, in one step; afterwards the last
\* Notes record has the mood analyze_mood returned, one of motivated, stuck
\* and neutral
C17_AnnotateThenAppend ==
    [][NotesHandled =>
          /\ seen'.called
          /\ seen'.list = entries["Notes"]
          /\ \A text \in Texts, p \in Polarities :
                 do_on_add_or_edit_entry("Notes", text, p) =>
                     LET rec == entries'["Notes"][Len(entries'["Notes"])]
                     IN  /\ entries' = [entries EXCEPT !["Notes"] = Append(@, rec)]
                         /\ rec.kind = "ReflectionLog"
                         /\ rec.text = text
                         /\ rec.mood \in {"motivated", "stuck", "neutral"}
                         /\ rec.mood = "motivated" <=> p > 3
                         /\ rec.mood = "stuck" <=> p < -3]_vars

\* the Notes handler ran twice and found two moods; at the second call of
\* analyze_mood the Notes list held the first record alone
C17_Witness ==
    /\ last.op = "on_add_or_edit_entry"
    /\ seen.called
    /\ Len(seen.list) = 1
    /\ Len(entries["Notes"]) = 2
    /\ entries["Notes"][1].mood = "stuck"
    /\ entries["Notes"][2].mood = "neutral"

\* the operations that read the store
Readers == {"get_entry", "summary", "snapshot", "save_entries", "export_csv"}

\* C18: a handler that appends makes the list of one entry type one record
\* longer, with the records it held unchanged and in place before the new
\* one, and leaves every other list as it was; get_entry, summary, snapshot,
\* Save and Export CSV leave every list as it was
C18_AppendOnly ==
    [][/\ Appends =>
              \E e \in EntryTypes :
                  /\ Len(entries'[e]) = Len(entries[e]) + 1
                  /\ \A i \in 1..Len(entries[e]) : entries'[e][i] = entries[e][i]
                  /\ \A other \in EntryTypes \ {e} : entries'[other] = entries[other]
       /\ last'.op \in Readers => entries' = entries]_vars

\* the Goal handler appended a GoalLog after the LearningLog set_entry had put
\* in the Goal list
C18_Witness ==
    /\ last.op = "on_add_or_edit_entry"
    /\ Len(entries["Goal"]) = 2
    /\ entries["Goal"][1].kind = "LearningLog"
    /\ entries["Goal"][2].kind = "GoalLog"

\* a text with no whitespace at either end
IsStripped(t) == t = <<>> \/ (t[1] \notin Whitespace /\ t[Len(t)] \notin Whitespace)

\* C19: the record a handler of the presentation layer appends has a text with
\* no leading and no trailing whitespace, whatever the entry type
C19_SanitizedEverywhere ==
    [][(Appends /\ last'.op = "on_add_or_edit_entry") =>
          \E e \in EntryTypes :
              /\ Len(entries'[e]) = Len(entries[e]) + 1
              /\ IsStripped(entries'[e][Len(entries'[e])].text)]_vars

\* C20: every record in the list of an entry type has that entry type as its own
C20_CategoryIsKey ==
    \A e \in EntryTypes :
        \A i \in 1..Len(entries[e]) : entries[e][i].entry_type = e

\* DocGood was loaded, whose first object under Notes names Goal as its
\* entry_type, after a record had been appended
C20_Witness ==
    /\ last = [op |-> "load_entries", ok |-> TRUE]
    /\ clock > 0
    /\ Len(entries["Notes"]) = 2
    /\ entries["Notes"][1].text = <<"a">>
    /\ entries["Notes"][1].mood = "stuck"
    /\ entries["Notes"][1].entry_type = "Notes"

====
